---- MODULE Spec2Model ----
(***************************************************************************)
(* asyncjson: the streaming JSON encoder of asyncjson/encoder.py.          *)
(*                                                                         *)
(* Texts are sequences of code points. A Python value is a record          *)
(*   [t, n, s, kids]                                                       *)
(* t the runtime type, n an integer payload, s a text payload and kids the *)
(* contained values (the entries of a dict are (key, value) tuples, as     *)
(* dict.items() yields them).                                              *)
(***************************************************************************)
EXTENDS Integers, Sequences, FiniteSets, TLC

\* ------------------------------------------------------------------ values

VStr(s) == [t |-> "str", n |-> 0, s |-> s, kids |-> <<>>]
VInt(n) == [t |-> "int", n |-> n, s |-> <<>>, kids |-> <<>>]
VNone == [t |-> "None", n |-> 0, s |-> <<>>, kids |-> <<>>]
VBool(b) == [t |-> "bool", n |-> IF b THEN 1 ELSE 0, s |-> <<>>, kids |-> <<>>]
\* a float: n = 0 finite (s its float.__repr__), 1 NaN, 2 +inf, 3 -inf
VFloat(n, s) == [t |-> "float", n |-> n, s |-> s, kids |-> <<>>]
VList(kids) == [t |-> "list", n |-> 0, s |-> <<>>, kids |-> kids]
VGen(kids) == [t |-> "generator", n |-> 0, s |-> <<>>, kids |-> kids]
\* an async generator: n = 1 when it raises after its last element
\* instead of finishing
VAGen(kids, n) == [t |-> "async_generator", n |-> n, s |-> <<>>, kids |-> kids]
VPair(k, v) == [t |-> "item", n |-> 0, s |-> <<>>, kids |-> <<k, v>>]
VDict(items) == [t |-> "dict", n |-> 0, s |-> <<>>, kids |-> items]
\* an awaitable resolving to v; n = 1 when awaiting it raises instead
VAw(v, n) == [t |-> "awaitable", n |-> n, s |-> <<63>>, kids |-> <<v>>]
\* a value of any other type
\* (s of an object or awaitable: the text a caller's fallback returns for it)
VObj(s) == [t |-> "object", n |-> 0, s |-> s, kids |-> <<>>]

\* ------------------------------------------------------------------- texts

RECURSIVE Concat(_)
Concat(ss) == IF ss = <<>> THEN <<>> ELSE Head(ss) \o Concat(Tail(ss))

RECURSIVE Digits(_)
Digits(n) == IF n < 10 THEN <<48 + n>> ELSE Digits(n \div 10) \o <<48 + (n % 10)>>

\* int.__repr__ (line 149)
IntRepr(n) == IF n < 0 THEN <<45>> \o Digits(-n) ELSE Digits(n)

HexDigit(d) == IF d < 10 THEN 48 + d ELSE 87 + d

\* '\\u{0:04x}'.format(n)
U4(n) ==
    <<92, 117, HexDigit((n \div 4096) % 16), HexDigit((n \div 256) % 16),
      HexDigit((n \div 16) % 16), HexDigit(n % 16)>>

InESCAPE_DCT(c) == c < 32 \/ c = 92 \/ c = 34

ESCAPE_DCT(c) ==
    CASE c = 92 -> <<92, 92>>
      [] c = 34 -> <<92, 34>>
      [] c = 8 -> <<92, 98>>
      [] c = 12 -> <<92, 102>>
      [] c = 10 -> <<92, 110>>
      [] c = 13 -> <<92, 114>>
      [] c = 9 -> <<92, 116>>
      [] OTHER -> U4(c)

\* ESCAPE.sub(replace, s) of py_encode_basestring
RECURSIVE EscapeSub(_)
EscapeSub(s) ==
    IF s = <<>> THEN <<>>
    ELSE (IF InESCAPE_DCT(Head(s)) THEN ESCAPE_DCT(Head(s)) ELSE <<Head(s)>>)
         \o EscapeSub(Tail(s))

py_encode_basestring(s) == <<34>> \o EscapeSub(s) \o <<34>>

\* replace(match) without "n -= 0x10000"
ReplaceAsciiNoOffset(c) ==
    IF InESCAPE_DCT(c) THEN ESCAPE_DCT(c)
    ELSE IF c < 65536 THEN U4(c)
    ELSE U4(55296 + ((c \div 1024) % 1024)) \o U4(56320 + (c % 1024))

\* replace(match) of py_encode_basestring_ascii
ReplaceAscii(c) ==
    IF InESCAPE_DCT(c) THEN ESCAPE_DCT(c)
    ELSE IF c < 65536 THEN U4(c)
    ELSE U4(55296 + (((c - 65536) \div 1024) % 1024)) \o U4(56320 + ((c - 65536) % 1024))

\* ESCAPE_ASCII matches a backslash, a quote or anything outside ' '..'~'
RECURSIVE EscapeAsciiSub(_)
EscapeAsciiSub(s) ==
    IF s = <<>> THEN <<>>
    ELSE (IF Head(s) = 92 \/ Head(s) = 34 \/ Head(s) < 32 \/ Head(s) > 126
          THEN ReplaceAscii(Head(s)) ELSE <<Head(s)>>)
         \o EscapeAsciiSub(Tail(s))

py_encode_basestring_ascii(s) == <<34>> \o EscapeAsciiSub(s) \o <<34>>

\* floatstr that never looks at allow_nan
floatstrLenient(o, allow_nan) ==
    [err |-> "",
     text |-> CASE o.n = 0 -> o.s
                [] o.n = 1 -> <<78, 97, 78>>
                [] o.n = 2 -> <<73, 110, 102, 105, 110, 105, 116, 121>>
                [] OTHER -> <<45, 73, 110, 102, 105, 110, 105, 116, 121>>]

\* floatstr: [err, text]
floatstr(o, allow_nan) ==
    IF o.n = 0 THEN [err |-> "", text |-> o.s]
    ELSE IF ~allow_nan THEN [err |-> "ValueError", text |-> <<>>]
    ELSE [err |-> "",
          text |-> CASE o.n = 1 -> <<78, 97, 78>>
                     [] o.n = 2 -> <<73, 110, 102, 105, 110, 105, 116, 121>>
                     [] OTHER -> <<45, 73, 110, 102, 105, 110, 105, 116, 121>>]

\* str(x) of the values a key collection holds: text, integers, None and
\* booleans; the repr of any other object is an opaque text
PyStr(x) ==
    CASE x.t = "str" -> x.s
      [] x.t = "int" -> IntRepr(x.n)
      [] x.t = "None" -> <<78, 111, 110, 101>>
      [] x.t = "bool" -> IF x.n = 1 THEN <<84, 114, 117, 101>>
                         ELSE <<70, 97, 108, 115, 101>>
      [] x.t = "float" -> CASE x.n = 0 -> x.s
                            [] x.n = 1 -> <<110, 97, 110>>
                            [] x.n = 2 -> <<105, 110, 102>>
                            [] OTHER -> <<45, 105, 110, 102>>
      [] OTHER -> <<60, 62>>

OBJTYPE_STRING == 0
OBJTYPE_SEQUENCE == 1
OBJTYPE_DICT == 2
OBJTYPE_ASYNC_GENERATOR == 3

\* ------------------------------------------------------------ configuration

\* JSONEncoder.__init__: the keyword arguments kw it stores; any other
\* keyword, a "default" function among them, goes to **_ and is dropped
JSONEncoder(kw) ==
    [pretty |-> kw.pretty, sort_keys |-> kw.sort_keys, ensure_ascii |-> kw.ensure_ascii,
     allow_nan |-> kw.allow_nan, indent |-> kw.indent,
     item_separator |-> <<44, 32>>, key_separator |-> <<58, 32>>,
     encode_string |-> IF kw.ensure_ascii THEN "py_encode_basestring_ascii"
                       ELSE "py_encode_basestring",
     encode_dictkey |-> "join_iterable"]

\* JSONEncoder.iterencode: the arguments encoder() is called with; default
\* is the method JSONEncoder.default, which raises
iterencode(self) ==
    [pretty |-> self.pretty, sort_keys |-> self.sort_keys, allow_nan |-> self.allow_nan,
     indent |-> self.indent, item_separator |-> self.item_separator,
     key_separator |-> self.key_separator, encode_dictkey |-> self.encode_dictkey,
     encode_string |-> self.encode_string, default |-> "JSONEncoder.default"]

\* dumps / dumps_gen: JSONEncoder(**kwargs).iterencode(o)
dumps_gen(kw) == iterencode(JSONEncoder(kw))

\* encoder() called directly (it is exported) with the caller's own default
DirectArgs(kw) == [iterencode(JSONEncoder(kw)) EXCEPT !.default = kw.default]

\* -------------------------------------------------------------- classifier

encode_string(a, s) ==
    IF a.encode_string = "py_encode_basestring_ascii" THEN py_encode_basestring_ascii(s)
    ELSE py_encode_basestring(s)

Scalar(text) == [typ |-> OBJTYPE_STRING, text |-> text, obj |-> VNone, err |-> ""]
Container(typ, item) == [typ |-> typ, text |-> <<>>, obj |-> item, err |-> ""]
Raised(err) == [typ |-> OBJTYPE_STRING, text |-> <<>>, obj |-> VNone, err |-> err]

\* default whose text goes through encode_string before it is emitted
defaultQuoted(a, item) ==
    IF a.default = "JSONEncoder.default" THEN Raised("unencodable")
    ELSE Scalar(encode_string(a, item.s))

\* default(item): JSONEncoder.default raises TypeError; a caller's function
\* returns a text for the value
default(a, item) ==
    IF a.default = "JSONEncoder.default" THEN Raised("unencodable")
    ELSE Scalar(item.s)

\* the rule table of value_encoder (lines 330-351)
RuleTable(a, item) ==
    CASE item.t = "str" -> Scalar(encode_string(a, item.s))
      [] item.t = "None" -> Scalar(<<110, 117, 108, 108>>)
      [] item.t = "bool" /\ item.n = 1 -> Scalar(<<116, 114, 117, 101>>)
      [] item.t = "bool" /\ item.n = 0 -> Scalar(<<102, 97, 108, 115, 101>>)
      [] item.t = "int" -> Scalar(IntRepr(item.n))
      [] item.t = "float" ->
            IF floatstr(item, a.allow_nan).err # "" THEN Raised("noncompliant")
            ELSE Scalar(floatstr(item, a.allow_nan).text)
      [] item.t = "list" -> Container(OBJTYPE_SEQUENCE, item)
      [] item.t = "dict" -> Container(OBJTYPE_DICT, item)
      [] item.t = "generator" -> Container(OBJTYPE_SEQUENCE, item)
      [] item.t = "async_generator" -> Container(OBJTYPE_ASYNC_GENERATOR, item)
      [] OTHER -> default(a, item)

\* no await at all
AwaitItemNever(item) == [err |-> "", item |-> item]

\* awaiting for as long as the result is awaitable
RECURSIVE AwaitItemDeep(_)
AwaitItemDeep(item) ==
    IF item.t = "awaitable"
    THEN (IF item.n = 1 THEN [err |-> "upstream", item |-> item]
          ELSE AwaitItemDeep(item.kids[1]))
    ELSE [err |-> "", item |-> item]

\* inspect.isawaitable(item): item = await item (lines 327-328); [err, item]
AwaitItem(item) ==
    IF item.t = "awaitable"
    THEN (IF item.n = 1 THEN [err |-> "upstream", item |-> item]
          ELSE [err |-> "", item |-> item.kids[1]])
    ELSE [err |-> "", item |-> item]

\* one enc.asend(item): [typ, text, obj, err]
value_encoder(a, item) ==
    IF AwaitItem(item).err # "" THEN Raised(AwaitItem(item).err)
    ELSE RuleTable(a, AwaitItem(item).item)

\* join_iterable that returns from inside its loop, after one element
join_iterableFirst(obj_type, obj) ==
    IF obj_type = OBJTYPE_SEQUENCE \/ obj_type = OBJTYPE_ASYNC_GENERATOR
    THEN (IF obj_type = OBJTYPE_ASYNC_GENERATOR /\ obj.n = 1
          THEN [err |-> "upstream", text |-> <<>>]
          ELSE [err |-> "",
                text |-> IF obj.kids = <<>> THEN <<>> ELSE PyStr(obj.kids[1])])
    ELSE [err |-> "key", text |-> <<>>]

\* join_iterable: [err, text]
join_iterable(obj_type, obj) ==
    IF obj_type = OBJTYPE_SEQUENCE
    THEN [err |-> "", text |-> Concat([i \in DOMAIN obj.kids |-> PyStr(obj.kids[i])])]
    ELSE IF obj_type = OBJTYPE_ASYNC_GENERATOR
    THEN (IF obj.n = 1 THEN [err |-> "upstream", text |-> <<>>]
          ELSE [err |-> "", text |-> Concat([i \in DOMAIN obj.kids |-> PyStr(obj.kids[i])])])
    ELSE [err |-> "key", text |-> <<>>]

\* ----------------------------------------------------------------- sorting

IsNum(x) == x.t = "int" \/ x.t = "bool"

\* x == y of two keys (True == 1)
PyEq(x, y) == IF IsNum(x) /\ IsNum(y) THEN x.n = y.n ELSE x = y

\* the first index at which two tuples differ, 0 when one is a prefix
RECURSIVE FirstDiff(_, _, _)
FirstDiff(x, y, i) ==
    IF i > Len(x.kids) \/ i > Len(y.kids) THEN 0
    ELSE IF PyEq(x.kids[i], y.kids[i]) THEN FirstDiff(x, y, i + 1)
    ELSE i

RECURSIVE TextLt(_, _)
TextLt(s, u) ==
    IF u = <<>> THEN FALSE
    ELSE IF s = <<>> THEN TRUE
    ELSE IF Head(s) # Head(u) THEN Head(s) < Head(u)
    ELSE TextLt(Tail(s), Tail(u))

\* x < y is defined (raises no TypeError): integers and booleans, two
\* texts, two tuples whose first differing elements are ordered. The keys
\* drawn here are texts, integers, booleans, None, tuples and awaitables.
RECURSIVE Ordered(_, _)
Ordered(x, y) ==
    CASE IsNum(x) /\ IsNum(y) -> TRUE
      [] x.t = "str" /\ y.t = "str" -> TRUE
      [] x.t = "list" /\ y.t = "list" ->
            IF FirstDiff(x, y, 1) = 0 THEN TRUE
            ELSE Ordered(x.kids[FirstDiff(x, y, 1)], y.kids[FirstDiff(x, y, 1)])
      [] OTHER -> FALSE

RECURSIVE Lt(_, _)
Lt(x, y) ==
    CASE IsNum(x) -> x.n < y.n
      [] x.t = "str" -> TextLt(x.s, y.s)
      [] OTHER ->
            IF FirstDiff(x, y, 1) = 0 THEN Len(x.kids) < Len(y.kids)
            ELSE Lt(x.kids[FirstDiff(x, y, 1)], y.kids[FirstDiff(x, y, 1)])

RECURSIVE Insert(_, _)
Insert(e, sorted) ==
    IF sorted = <<>> THEN <<e>>
    ELSE IF Lt(e.kids[1], Head(sorted).kids[1]) THEN <<e>> \o sorted
    ELSE <<Head(sorted)>> \o Insert(e, Tail(sorted))

RECURSIVE InsertAll(_, _)
InsertAll(items, sorted) ==
    IF items = <<>> THEN sorted
    ELSE InsertAll(Tail(items), Insert(Head(items), sorted))

\* sorted(vobj.items()): the (key, value) tuples in ascending order of key,
\* or TypeError when two keys are not ordered; [err, items]
sorted(items) ==
    IF \E i, j \in DOMAIN items : i # j /\ ~Ordered(items[i].kids[1], items[j].kids[1])
    THEN [err |-> "notcomparable", items |-> <<>>]
    ELSE [err |-> "", items |-> InsertAll(items, <<>>)]

\* ------------------------------------------------------------------ engine
\* The locals of one encoder() call, the record e:
\*   pc     "start", "loop", "done", "failed" (an exception left the
\*          generator) or "abandoned" (the consumer closed it)
\*   stack  the (ittyp, it) frames; it refers to an iterator of heap
\*   ittyp, it, begun   the current-frame locals
\*   heap   the iterators created so far: the items not yet pulled (rest),
\*          whether the source raises at its end (n), and its state
\*          "created", "running" or "finished"
\*   out    the fragments yielded so far
\*   sent   the value of the last enc.asend (vobj, value or key)
\*   item   the local item of value_encoder after its await
\*   err    the exception that ended the call
\* One step runs encoder() from one pull of the current source to the next:
\* the fragments it yields are appended in the order the code yields them,
\* and a failure keeps those yielded before the raising statement. The
\* consumer may stop consuming between two steps.

VARIABLES o, kw, api, enc, other

vars == <<o, kw, api, enc, other>>

\* the arguments the encoder() call runs with
Args(k, entry) == IF entry = "encoder" THEN DirectArgs(k) ELSE dumps_gen(k)

RECURSIVE Spaces(_)
Spaces(n) == IF n <= 0 THEN <<>> ELSE <<32>> \o Spaces(n - 1)

\* held: the most elements one resumption has taken from a single source
\* before yielding anything of them
Fresh ==
    [pc |-> "start", stack |-> <<>>, ittyp |-> OBJTYPE_STRING, it |-> 0, begun |-> FALSE,
     heap |-> <<>>, out |-> <<>>, sent |-> VNone, item |-> VNone, err |-> "",
     held |-> 0]

\* the exception is swallowed and the loop goes on
FailContinues(e, err) == [e EXCEPT !.err = err]

\* an exception leaves the generator
Fail(e, err) == [e EXCEPT !.pc = "failed", !.err = err]

\* enc.asend(x): what the classifier holds afterwards
Asend(e, x) ==
    [e EXCEPT !.sent = x, !.item = IF AwaitItem(x).err # "" THEN e.item ELSE AwaitItem(x).item]

Yield(e, frag) == [e EXCEPT !.out = Append(@, frag)]

YieldIf(e, cond, frag) == IF cond THEN Yield(e, frag) ELSE e

\* a whole collection of n elements consumed before anything of it is yielded
Held(e, n) == [e EXCEPT !.held = IF n > @ THEN n ELSE @]

\* stack.append((ittyp, it)) ahead of it = iter(...): the frame holds the
\* parent's source
PushStaleSource(e, typ, items, n) ==
    [e EXCEPT !.heap = Append(@, [rest |-> items, n |-> n, state |-> "created"]),
              !.it = Len(e.heap) + 1,
              !.ittyp = typ,
              !.stack = Append(@, <<typ, e.it>>),
              !.begun = FALSE]

\* it = iter(...) / vobj.__aiter__(), stack.append((ittyp, it)), begun = False
Push(e, typ, items, n) ==
    [e EXCEPT !.heap = Append(@, [rest |-> items, n |-> n, state |-> "created"]),
              !.it = Len(e.heap) + 1,
              !.ittyp = typ,
              !.stack = Append(@, <<typ, Len(e.heap) + 1>>),
              !.begun = FALSE]

Bracket(typ) == IF typ = OBJTYPE_DICT THEN <<123>> ELSE <<91>>

\* lines 208-223: the root container; its items are never sorted
OpenRoot(e, typ, vobj) ==
    Push(Yield(e, Bracket(typ)), typ, vobj.kids,
         IF typ = OBJTYPE_ASYNC_GENERATOR THEN vobj.n ELSE 0)

\* lines 248-261 and 297-310: a nested container
OpenNested(a, e, typ, vobj) ==
    IF typ = OBJTYPE_DICT /\ a.sort_keys
    THEN (IF sorted(vobj.kids).err # ""
          THEN Fail(Yield(e, Bracket(typ)), sorted(vobj.kids).err)
          ELSE Push(Held(Yield(e, Bracket(typ)), Len(vobj.kids)), typ,
                    sorted(vobj.kids).items, 0))
    ELSE Push(Yield(e, Bracket(typ)), typ, vobj.kids,
              IF typ = OBJTYPE_ASYNC_GENERATOR THEN vobj.n ELSE 0)

\* lines 202-223
Start(a, e, vobj) ==
    LET r == value_encoder(a, vobj)
        s == Asend(e, vobj)
    IN IF r.err # "" THEN Fail(s, r.err)
       ELSE IF r.typ = OBJTYPE_STRING THEN [Yield(s, r.text) EXCEPT !.pc = "done"]
       ELSE [OpenRoot(s, r.typ, r.obj) EXCEPT !.pc = "loop"]

\* two items taken from the source for one that is handled
PulledTwo(e) ==
    [e EXCEPT !.heap[e.it].rest = IF Len(@) > 1 THEN Tail(Tail(@)) ELSE Tail(@),
              !.heap[e.it].state = "running",
              !.held = IF Len(e.heap[e.it].rest) > 1 THEN 2 ELSE 1]

\* next(it) / await it.__anext__() returning an item
Pulled(e) ==
    [e EXCEPT !.heap[e.it].rest = Tail(@), !.heap[e.it].state = "running", !.held = 1]

\* the separator and the newline of pretty mode yielded as one fragment
SeparateGlued(a, e) ==
    [YieldIf(e, e.begun \/ a.pretty,
             (IF e.begun THEN a.item_separator ELSE <<>>)
             \o (IF a.pretty THEN <<10>> ELSE <<>>))
     EXCEPT !.begun = TRUE]

\* lines 229-233 and 269-273
Separate(a, e) ==
    [YieldIf(YieldIf(e, e.begun, a.item_separator), a.pretty, <<10>>) EXCEPT !.begun = TRUE]

\* lines 244-263 and 296-312: classify the value, then emit it or open it
EmitValue(a, e, value, indented) ==
    LET r == value_encoder(a, value)
        s == Asend(e, value)
        d == YieldIf(s, indented, Spaces(a.indent * Len(e.stack)))
    IN IF r.err # "" THEN Fail(s, r.err)
       ELSE IF r.typ # OBJTYPE_STRING THEN OpenNested(a, d, r.typ, r.obj)
       ELSE Yield(d, r.text)

\* lines 226-233, 244-263: one element of a sequence or async generator
SeqElem(a, e) ==
    EmitValue(a, Separate(a, Pulled(e)), Head(e.heap[e.it].rest), a.pretty)

\* Close without "ittyp, it = stack[-1]"
CloseKeepsChild(a, e, bracket) ==
    [Yield(YieldIf([e EXCEPT !.stack = SubSeq(@, 1, Len(@) - 1),
                             !.heap[e.it].state = "finished"],
                   a.pretty /\ e.begun,
                   <<10>> \o Spaces(a.indent * (Len(e.stack) - 1))),
           bracket)
     EXCEPT !.begun = TRUE]

\* Close without "begun = True": the flag of the closed child stays
CloseKeepsFlag(a, e, bracket) ==
    LET popped == [e EXCEPT !.stack = SubSeq(@, 1, Len(@) - 1),
                            !.heap[e.it].state = "finished"]
        c == Yield(YieldIf(popped, a.pretty /\ e.begun,
                           <<10>> \o Spaces(a.indent * Len(popped.stack))),
                   bracket)
    IN IF popped.stack # <<>>
       THEN [c EXCEPT !.ittyp = popped.stack[Len(popped.stack)][1],
                      !.it = popped.stack[Len(popped.stack)][2]]
       ELSE c

\* Close that indents the closing bracket by the stack before stack.pop()
CloseIndentsDeep(a, e, bracket) ==
    LET popped == [e EXCEPT !.stack = SubSeq(@, 1, Len(@) - 1),
                            !.heap[e.it].state = "finished"]
        c == Yield(YieldIf(popped, a.pretty /\ e.begun,
                           <<10>> \o Spaces(a.indent * Len(e.stack))),
                   bracket)
    IN IF popped.stack # <<>>
       THEN [c EXCEPT !.ittyp = popped.stack[Len(popped.stack)][1],
                      !.it = popped.stack[Len(popped.stack)][2],
                      !.begun = TRUE]
       ELSE [c EXCEPT !.begun = TRUE]

\* lines 234-242 and 274-282: StopIteration / StopAsyncIteration
Close(a, e, bracket) ==
    LET popped == [e EXCEPT !.stack = SubSeq(@, 1, Len(@) - 1),
                            !.heap[e.it].state = "finished"]
        c == Yield(YieldIf(popped, a.pretty /\ e.begun,
                           <<10>> \o Spaces(a.indent * Len(popped.stack))),
                   bracket)
    IN IF popped.stack # <<>>
       THEN [c EXCEPT !.ittyp = popped.stack[Len(popped.stack)][1],
                      !.it = popped.stack[Len(popped.stack)][2],
                      !.begun = TRUE]
       ELSE [c EXCEPT !.begun = TRUE]

\* line 228 at the end of the source: the async generator raises, or the
\* iteration stops
SeqEnd(a, e) ==
    IF e.ittyp = OBJTYPE_ASYNC_GENERATOR /\ e.heap[e.it].n = 1
    THEN Fail([e EXCEPT !.heap[e.it].state = "finished"], "upstream")
    ELSE Close(a, e, <<93>>)

\* lines 287-293: the key
EmitKey(a, e, key) ==
    LET k == value_encoder(a, key)
        j == join_iterable(k.typ, k.obj)
        s == Asend(e, key)
    IN IF k.err # "" THEN Fail(s, k.err)
       ELSE IF k.typ = OBJTYPE_STRING THEN Yield(Yield(s, k.text), a.key_separator)
       ELSE IF j.err # "" THEN Fail(s, j.err)
       ELSE Yield(Yield(Held(s, Len(k.obj.kids)), encode_string(a, j.text)),
                  a.key_separator)

\* lines 266-273, 284-312: one entry of a dict
DictEntry(a, e) ==
    LET item == Head(e.heap[e.it].rest)
        s == Separate(a, Pulled(e))
        k == EmitKey(a, YieldIf(s, a.pretty, Spaces(a.indent * Len(s.stack))), item.kids[1])
    IN IF k.pc = "failed" THEN k ELSE EmitValue(a, k, item.kids[2], FALSE)

DictEndSquare(a, e) == Close(a, e, <<93>>)

\* lines 274-282
DictEnd(a, e) == Close(a, e, <<125>>)

\* line 224 with an empty stack, line 314
Finish(e) == [e EXCEPT !.pc = "done"]

\* the consumer closes the generator at a yield: GeneratorExit leaves
\* encoder(), which has no try/finally
Aclose(e) == [e EXCEPT !.pc = "abandoned"]

InSeq(e) == e.ittyp = OBJTYPE_SEQUENCE \/ e.ittyp = OBJTYPE_ASYNC_GENERATOR

\* one resumption of encoder(): the dispatch of lines 224-225 and 265
Step(a, e, vobj) ==
    CASE e.pc = "start" -> Start(a, e, vobj)
      [] e.pc = "loop" /\ e.stack = <<>> -> Finish(e)
      [] e.pc = "loop" /\ e.stack # <<>> /\ InSeq(e) ->
            IF e.heap[e.it].rest # <<>> THEN SeqElem(a, e) ELSE SeqEnd(a, e)
      [] e.pc = "loop" /\ e.stack # <<>> /\ e.ittyp = OBJTYPE_DICT ->
            IF e.heap[e.it].rest # <<>> THEN DictEntry(a, e) ELSE DictEnd(a, e)
      [] OTHER -> e

\* JSONEncoder.encode: the call driven until it returns or raises
RECURSIVE Drive(_, _, _)
Drive(a, e, vobj) ==
    IF e.pc \in {"done", "failed"} THEN e ELSE Drive(a, Step(a, e, vobj), vobj)

encode(a, vobj) == Drive(a, Fresh, vobj)

\* begun kept at module level: a resumption reads what the other call left
ResumeSharedFlag(a, own, peer, vobj) ==
    Step(a, [own EXCEPT !.begun = IF peer.pc = "loop" THEN peer.begun ELSE @], vobj)

\* one resumption of a call while a second call is in progress on the same
\* event loop: stack, it, ittyp, begun and the value_encoder generator are
\* locals of the call (lines 193-204), ESCAPE_DCT and SENTINEL are only
\* read, so nothing of the peer is used
Resume(a, own, peer, vobj) == Step(a, own, vobj)

\* no second call
Idle == [o |-> VNone, enc |-> Fresh]

\* ------------------------------------------------------------------ inputs

MaxDepth == 2
MaxLen == 2

Plain == VInt(1)
TextA == VStr(<<97>>)
TextB == VStr(<<98>>)

RECURSIVE Run(_, _)
Run(v, n) == IF n = 0 THEN <<>> ELSE <<v>> \o Run(v, n - 1)

\* the values placed at the focus of an input
Scalars ==
    {Plain, TextB, VNone, VObj(<<120>>), VAw(Plain, 0), VAw(VAw(Plain, 0), 0), VAw(Plain, 1)}

Runs ==
    UNION {{VList(Run(Plain, n)), VGen(Run(Plain, n)), VAGen(Run(Plain, n), 0)} : n \in 0..MaxLen}

Dicts ==
    {VDict(<<VPair(TextB, Plain), VPair(TextA, VList(<<>>))>>),
     VDict(<<VPair(VInt(2), Plain), VPair(VBool(TRUE), Plain)>>),
     VDict(<<VPair(VNone, Plain)>>),
     VDict(<<VPair(VList(<<TextA, VInt(1)>>), Plain)>>),
     VDict(<<VPair(VList(<<TextA, VAw(Plain, 0)>>), Plain)>>),
     VDict(<<VPair(VAGen(<<TextA, TextB>>, 0), Plain)>>),
     VDict(<<VPair(VAGen(<<TextA>>, 1), Plain)>>),
     VDict(<<VPair(VAw(TextA, 0), VAw(TextB, 0))>>),
     VDict(<<VPair(TextB, Plain), VPair(VAw(TextA, 0), Plain)>>),
     VDict(<<VPair(VAw(VDict(<<>>), 0), Plain)>>),
     VDict(<<VPair(TextB, Plain), VPair(VInt(1), Plain)>>)}

Foci == Scalars \cup Runs \cup Dicts

\* one more level of nesting around v
Wrappers(v) ==
    {VList(<<Plain, v, Plain>>), VAGen(<<v, Plain>>, 0), VAGen(<<v>>, 1),
     VDict(<<VPair(TextB, Plain), VPair(TextA, v)>>), VAw(v, 0)}

RECURSIVE Nested(_)
Nested(d) ==
    IF d = 0 THEN Foci
    ELSE Nested(d - 1) \cup UNION {Wrappers(v) : v \in Nested(d - 1)}

Inputs == Nested(MaxDepth)

Configs ==
    [pretty : BOOLEAN, sort_keys : BOOLEAN, ensure_ascii : {TRUE}, allow_nan : {TRUE},
     indent : {1}, default : {"JSONEncoder.default", "fn"}]

\* ----------------------------------------------------------- specification

A == Args(kw, api)

Init ==
    /\ o \in Inputs
    /\ kw \in Configs
    /\ api \in {"dumps_gen", "encoder"}
    /\ enc = Fresh
    /\ other = Idle

Looping == enc.pc = "loop" /\ enc.stack # <<>>

EncStart ==
    /\ enc.pc = "start"
    /\ enc' = Start(A, enc, o)
    /\ UNCHANGED <<o, kw, api, other>>

EncSeqElem ==
    /\ Looping /\ InSeq(enc) /\ enc.heap[enc.it].rest # <<>>
    /\ enc' = SeqElem(A, enc)
    /\ UNCHANGED <<o, kw, api, other>>

EncSeqEnd ==
    /\ Looping /\ InSeq(enc) /\ enc.heap[enc.it].rest = <<>>
    /\ enc' = SeqEnd(A, enc)
    /\ UNCHANGED <<o, kw, api, other>>

EncDictEntry ==
    /\ Looping /\ enc.ittyp = OBJTYPE_DICT /\ enc.heap[enc.it].rest # <<>>
    /\ enc' = DictEntry(A, enc)
    /\ UNCHANGED <<o, kw, api, other>>

EncDictEnd ==
    /\ Looping /\ enc.ittyp = OBJTYPE_DICT /\ enc.heap[enc.it].rest = <<>>
    /\ enc' = DictEnd(A, enc)
    /\ UNCHANGED <<o, kw, api, other>>

EncFinish ==
    /\ enc.pc = "loop" /\ enc.stack = <<>>
    /\ enc' = Finish(enc)
    /\ UNCHANGED <<o, kw, api, other>>

ConsumerAclose ==
    /\ enc.pc = "loop"
    /\ enc' = Aclose(enc)
    /\ UNCHANGED <<o, kw, api, other>>

Next ==
    \/ EncStart
    \/ EncSeqElem
    \/ EncSeqEnd
    \/ EncDictEntry
    \/ EncDictEnd
    \/ EncFinish
    \/ ConsumerAclose

Spec == Init /\ [][Next]_vars

\* ------------------------------------------------------------------ claims

Closer(typ) == IF typ = OBJTYPE_DICT THEN <<125>> ELSE <<93>>

\* the closing brackets still owed by a fragment sequence, innermost last;
\* <<<<0>>>> when a closing bracket has no matching opening bracket
RECURSIVE Owed(_, _)
Owed(frags, open) ==
    IF frags = <<>> THEN open
    ELSE IF Head(frags) = <<123>> THEN Owed(Tail(frags), Append(open, <<125>>))
    ELSE IF Head(frags) = <<91>> THEN Owed(Tail(frags), Append(open, <<93>>))
    ELSE IF Head(frags) \in {<<125>>, <<93>>}
    THEN (IF open # <<>> /\ open[Len(open)] = Head(frags)
          THEN Owed(Tail(frags), SubSeq(open, 1, Len(open) - 1))
          ELSE <<<<0>>>>)
    ELSE Owed(Tail(frags), open)

\* C1: while the traversal runs the brackets emitted and not yet closed are
\* exactly those of the frames on the stack, in stack order and of the
\* frame's kind, and no closing bracket ever comes without its opening
\* bracket; so a call that completes has emitted a balanced sequence.
C1_Balanced ==
    enc.pc \in {"loop", "done"} =>
        Owed(enc.out, <<>>) = [i \in 1..Len(enc.stack) |-> Closer(enc.stack[i][1])]

C1_Witness ==
    /\ enc.pc = "done"
    /\ \E i, j \in DOMAIN enc.out : i < j /\ enc.out[i] = <<123>> /\ enc.out[j] = <<91>>
    /\ Len(enc.heap) >= 3

\* What a recursive depth-first, left-to-right walk of a value emits, for
\* C2 and C8: Walk(a, v, depth, top). depth is the number of containers
\* open around v. A deferred value stands for its result. The entries of
\* an Object come in the order its source holds them: as given, or in
\* ascending key order where the source was built sorted (C3 is about which
\* sources are).
Resolved(v) == IF v.t = "awaitable" /\ v.n = 0 THEN v.kids[1] ELSE v

IsContainer(v) == v.t \in {"list", "generator", "async_generator", "dict"}

SourceOrder(a, v, top) ==
    IF a.sort_keys /\ ~top /\ sorted(v.kids).err = "" THEN sorted(v.kids).items ELSE v.kids

KeyText(a, key) ==
    IF value_encoder(a, key).typ = OBJTYPE_STRING THEN value_encoder(a, key).text
    ELSE encode_string(a, join_iterable(value_encoder(a, key).typ,
                                        value_encoder(a, key).obj).text)

Lead(a, first, depth) ==
    (IF first THEN <<>> ELSE <<a.item_separator>>)
    \o (IF a.pretty THEN <<<<10>>, Spaces(a.indent * depth)>> ELSE <<>>)

RECURSIVE Walk(_, _, _, _)
RECURSIVE WalkKids(_, _, _, _, _)
Walk(a, v, depth, top) ==
    LET w == Resolved(v)
    IN IF ~IsContainer(w) THEN <<value_encoder(a, v).text>>
       ELSE <<Bracket(IF w.t = "dict" THEN OBJTYPE_DICT ELSE OBJTYPE_SEQUENCE)>>
            \o WalkKids(a, IF w.t = "dict" THEN SourceOrder(a, w, top) ELSE w.kids,
                        depth + 1, TRUE, w.t = "dict")
            \o (IF a.pretty /\ w.kids # <<>>
                THEN <<<<10>> \o Spaces(a.indent * depth)>> ELSE <<>>)
            \o <<Closer(IF w.t = "dict" THEN OBJTYPE_DICT ELSE OBJTYPE_SEQUENCE)>>
WalkKids(a, kids, depth, first, keyed) ==
    IF kids = <<>> THEN <<>>
    ELSE Lead(a, first, depth)
         \o (IF keyed
             THEN <<KeyText(a, Head(kids).kids[1]), a.key_separator>>
                  \o Walk(a, Head(kids).kids[2], depth, FALSE)
             ELSE Walk(a, Head(kids), depth, FALSE))
         \o WalkKids(a, Tail(kids), depth, FALSE, keyed)

\* C2: a call that completes has emitted exactly the fragments of the
\* depth-first, left-to-right walk of its input, in that order: every
\* fragment of an earlier sibling before any fragment of a later one, and
\* the elements of an async source in the order it produces them.
C2_DepthFirstOrder == enc.pc = "done" => enc.out = Walk(A, o, 0, TRUE)

C2_Witness ==
    /\ enc.pc = "done"
    /\ o.t = "async_generator" /\ Len(o.kids) = 2
    /\ IsContainer(o.kids[1]) /\ Len(o.kids[1].kids) = 3
    /\ IsContainer(o.kids[1].kids[2])

Frames == {enc.stack[i] : i \in DOMAIN enc.stack}

Ascending(items) ==
    \A i \in 1..(Len(items) - 1) :
        /\ Ordered(items[i].kids[1], items[i + 1].kids[1])
        /\ Lt(items[i].kids[1], items[i + 1].kids[1])

\* C3: with sort_keys, the entries of every Object, the root object
\* included, are in ascending order of their raw keys before the first
\* entry is pulled from it.
C3_EveryObjectSorted ==
    A.sort_keys =>
        \A f \in Frames :
            (f[1] = OBJTYPE_DICT /\ enc.heap[f[2]].state = "created")
                => Ascending(enc.heap[f[2]].rest)

IsQuoted(text) == Len(text) >= 2 /\ text[1] = 34 /\ text[Len(text)] = 34

\* C4: a key that is a Scalar but not text is never emitted: every
\* fragment followed by the key separator is a double-quoted string
\* literal.
C4_KeysAreQuoted ==
    \A i \in 1..(Len(enc.out) - 1) :
        enc.out[i + 1] = A.key_separator => IsQuoted(enc.out[i])

\* C5: when a fallback function is given as the "default" keyword of
\* dumps / dumps_gen / JSONEncoder, no value ends the call with the
\* unencodable-type error.
C5_SuppliedFallbackIsUsed ==
    (api = "dumps_gen" /\ kw.default = "fn") => enc.err # "unencodable"

\* C6: when the call ends early, by a failure or because the consumer
\* abandons it, no async source that was pushed as a frame and has begun
\* producing is left unfinished.
C6_SourcesReleased ==
    enc.pc \in {"failed", "abandoned"} =>
        \A f \in Frames :
            f[1] = OBJTYPE_ASYNC_GENERATOR => enc.heap[f[2]].state # "running"

\* C7: the frame stack is empty whenever the machine has terminated, by
\* success or by a failure.
C7_StackEmptyAtTermination == enc.pc \in {"done", "failed"} => enc.stack = <<>>

IsPrefix(p, q) == Len(p) <= Len(q) /\ SubSeq(q, 1, Len(p)) = p

WithFallback(a) == [a EXCEPT !.default = "fn"]

\* the fragments of the complete walk that follow those already emitted
Remaining == SubSeq(Walk(WithFallback(A), o, 0, TRUE), Len(enc.out) + 1,
                    Len(Walk(WithFallback(A), o, 0, TRUE)))

C8_Prefix ==
    enc.err = "unencodable" =>
        /\ enc.pc = "failed"
        /\ IsPrefix(enc.out, Walk(WithFallback(A), o, 0, TRUE))
        /\ Remaining # <<>>
        /\ \/ Remaining[1] = default(WithFallback(A), enc.item).text
           \/ /\ A.pretty /\ Len(Remaining) >= 2
              /\ Remaining[1] = Spaces(Len(Remaining[1]))
              /\ Remaining[2] = default(WithFallback(A), enc.item).text

\* C8: when a value matching no rule is reached with no fallback in effect
\* the call fails with the unencodable-type error; what was emitted is
\* exactly what the depth-first walk emits before that value (the walk of
\* the same input with a fallback goes on with the value's indentation, if
\* any, and its rendering); and nothing is emitted after the failure.
C8_FailStop ==
    [](C8_Prefix) /\ [][enc.pc = "failed" => enc'.out = enc.out]_vars

C8_Witness ==
    /\ enc.err = "unencodable" /\ enc.item.t = "object"
    /\ Len(enc.out) >= 4 /\ Len(enc.stack) >= 2

\* ------- C9

\* the input with every deferred value (the root, a sequence element, an
\* object value, an object key) replaced by what it resolves to, one level
RECURSIVE Strip(_)
RECURSIVE StripInside(_)
Strip(v) == IF v.t = "awaitable" /\ v.n = 0 THEN StripInside(v.kids[1]) ELSE StripInside(v)
StripInside(v) ==
    CASE v.t \in {"list", "generator", "async_generator"} ->
            [v EXCEPT !.kids = [i \in DOMAIN v.kids |-> Strip(v.kids[i])]]
      [] v.t = "dict" ->
            [v EXCEPT !.kids = [i \in DOMAIN v.kids |->
                VPair(Strip(v.kids[i].kids[1]), Strip(v.kids[i].kids[2]))]]
      [] OTHER -> v

SameAsResolved ==
    /\ encode(A, Strip(o)).out = enc.out
    /\ encode(A, Strip(o)).err = enc.err

\* C9 as claimed: the encoding of an input with deferred parts is that of
\* the same input with the resolved values in their place.
C9_DeferredTransparent == enc.pc \in {"done", "failed"} => SameAsResolved

\* some deferred value of v resolves to a deferred value
RECURSIVE HasNestedDeferred(_)
HasNestedDeferred(v) ==
    \/ v.t = "awaitable" /\ v.n = 0 /\ v.kids[1].t = "awaitable"
    \/ \E i \in DOMAIN v.kids : HasNestedDeferred(v.kids[i])

RECURSIVE HasDeferredKey(_)
HasDeferredKey(v) ==
    \/ v.t = "dict" /\ \E i \in DOMAIN v.kids : v.kids[i].kids[1].t = "awaitable"
    \/ \E i \in DOMAIN v.kids : HasDeferredKey(v.kids[i])

\* some key collection of v has a deferred element
RECURSIVE HasDeferredKeyElement(_)
HasDeferredKeyElement(v) ==
    \/ /\ v.t = "dict"
       /\ \E i \in DOMAIN v.kids :
             \E j \in DOMAIN Resolved(v.kids[i].kids[1]).kids :
                Resolved(v.kids[i].kids[1]).kids[j].t = "awaitable"
    \/ \E i \in DOMAIN v.kids : HasDeferredKeyElement(v.kids[i])

\* C9 amended: the same, for deferred values that do not resolve to a
\* deferred value, are not elements of a key collection and, under
\* sort_keys, are not object keys.
C9_DeferredTransparentAmended ==
    (/\ enc.pc \in {"done", "failed"}
     /\ ~HasNestedDeferred(o)
     /\ ~HasDeferredKeyElement(o)
     /\ A.sort_keys => ~HasDeferredKey(o))
        => SameAsResolved

C9_Witness ==
    /\ enc.pc = "done" /\ ~A.sort_keys /\ ~HasNestedDeferred(o) /\ ~HasDeferredKeyElement(o)
    /\ o.t = "awaitable" /\ o.kids[1].t = "dict"
    /\ \E i \in DOMAIN o.kids[1].kids :
          /\ o.kids[1].kids[i].kids[2].t = "dict"
          /\ HasDeferredKey(o.kids[1].kids[i].kids[2])
          /\ \E j \in DOMAIN o.kids[1].kids[i].kids[2].kids :
                o.kids[1].kids[i].kids[2].kids[j].kids[2].t = "awaitable"

\* ------- C10

\* C10: a deferred value handed to the classifier is awaited once: the
\* classifier then holds the value it resolved to, and when that value is
\* itself deferred it is not awaited but goes to the fallback, whose error
\* ends the call or whose text is emitted.
C10_ResolvedOnce ==
    (enc.sent.t = "awaitable" /\ enc.sent.n = 0) =>
        /\ enc.item = enc.sent.kids[1]
        /\ enc.item.t = "awaitable" =>
              IF A.default = "JSONEncoder.default"
              THEN enc.pc = "failed" /\ enc.err = "unencodable"
              ELSE \E i \in DOMAIN enc.out : enc.out[i] = enc.item.s

C10_Witness ==
    /\ enc.sent.t = "awaitable" /\ enc.sent.n = 0
    /\ enc.item.t = "awaitable" /\ enc.item.kids[1].t = "int"
    /\ enc.pc = "failed" /\ enc.err = "unencodable" /\ Len(enc.stack) >= 1

\* ------------------------------------------------- non-finite floats (C11)

\* 1.5, nan, inf, -inf
Floats == {VFloat(0, <<49, 46, 53>>), VFloat(1, <<>>), VFloat(2, <<>>), VFloat(3, <<>>)}

NumFoci ==
    Floats \cup {VAw(VFloat(1, <<>>), 0),
                 VList(<<VFloat(0, <<49, 46, 53>>), VFloat(2, <<>>)>>),
                 VDict(<<VPair(TextA, VFloat(3, <<>>)), VPair(TextB, Plain)>>)}

RECURSIVE NestedNum(_)
NestedNum(d) ==
    IF d = 0 THEN NumFoci
    ELSE NestedNum(d - 1) \cup UNION {Wrappers(v) : v \in NestedNum(d - 1)}

NumConfigs ==
    [pretty : BOOLEAN, sort_keys : {FALSE}, ensure_ascii : {TRUE}, allow_nan : BOOLEAN,
     indent : {1}, default : {"JSONEncoder.default"}]

InitNum ==
    /\ o \in NestedNum(MaxDepth)
    /\ kw \in NumConfigs
    /\ api \in {"dumps_gen", "encoder"}
    /\ enc = Fresh
    /\ other = Idle

SpecNum == InitNum /\ [][Next]_vars

NonFiniteLiterals ==
    {<<78, 97, 78>>, <<73, 110, 102, 105, 110, 105, 116, 121>>,
     <<45, 73, 110, 102, 105, 110, 105, 116, 121>>}

FloatLiteral(n) ==
    CASE n = 1 -> <<78, 97, 78>>
      [] n = 2 -> <<73, 110, 102, 105, 110, 105, 116, 121>>
      [] OTHER -> <<45, 73, 110, 102, 105, 110, 105, 116, 121>>

Emitted(text) == \E i \in DOMAIN enc.out : enc.out[i] = text

\* C11: a non-finite float the classifier was handed is emitted as NaN,
\* Infinity or -Infinity when allow_nan is true; when it is false the call
\* fails on it with the non-compliant-numeric error and no such literal is
\* ever emitted; a finite float is emitted as its text whatever the flag,
\* and nothing but a non-finite float under allow_nan false raises that error
C11_NonFiniteFloats ==
    /\ (enc.item.t = "float" /\ enc.item.n # 0) =>
          IF A.allow_nan
          THEN enc.err # "noncompliant" /\ Emitted(FloatLiteral(enc.item.n))
          ELSE enc.pc = "failed" /\ enc.err = "noncompliant"
    /\ ~A.allow_nan => \A i \in DOMAIN enc.out : enc.out[i] \notin NonFiniteLiterals
    /\ (enc.item.t = "float" /\ enc.item.n = 0) =>
          enc.err # "noncompliant" /\ Emitted(enc.item.s)
    /\ enc.err = "noncompliant" =>
          ~A.allow_nan /\ enc.item.t = "float" /\ enc.item.n # 0

\* a nested non-finite float refused after earlier fragments went out
C11_Witness ==
    /\ enc.pc = "failed" /\ enc.err = "noncompliant"
    /\ Len(enc.stack) >= 2 /\ Len(enc.out) >= 3

\* ------------------------------------------------ layout (C12, C17, C18)

LayoutFoci ==
    {Plain, TextB, VAw(VList(<<>>), 0), VDict(<<>>),
     VDict(<<VPair(TextB, Plain), VPair(TextA, VList(<<>>))>>),
     VDict(<<VPair(VList(<<TextA, VInt(1)>>), VDict(<<>>))>>)} \cup Runs

RECURSIVE NestedLayout(_)
NestedLayout(d) ==
    IF d = 0 THEN LayoutFoci
    ELSE NestedLayout(d - 1) \cup UNION {Wrappers(v) : v \in NestedLayout(d - 1)}

LayoutConfigs ==
    [pretty : BOOLEAN, sort_keys : BOOLEAN, ensure_ascii : {TRUE}, allow_nan : {TRUE},
     indent : {0, 1, 2}, default : {"JSONEncoder.default"}]

InitLayout ==
    /\ o \in NestedLayout(MaxDepth)
    /\ kw \in LayoutConfigs
    /\ api = "dumps_gen"
    /\ enc = Fresh
    /\ other = Idle

SpecLayout == InitLayout /\ [][Next]_vars

\* a fragment of nothing but newlines and spaces
Whitespace(frag) == \A i \in DOMAIN frag : frag[i] \in {10, 32}

NotWhitespace(frag) == ~Whitespace(frag)

DropWhitespace(frags) == SelectSeq(frags, NotWhitespace)

\* C12: the fragments of a pretty call that has returned or raised, with the
\* fragments of nothing but newlines and indentation deleted, are exactly
\* the fragments the same call emits with pretty off
C12_PrettyRefinesCompact ==
    (A.pretty /\ enc.pc \in {"done", "failed"}) =>
        DropWhitespace(enc.out) = encode([A EXCEPT !.pretty = FALSE], o).out

\* a pretty call over nested containers that returned
C12_Witness ==
    /\ A.pretty /\ enc.pc = "done"
    /\ \E i \in DOMAIN enc.out : enc.out[i] = <<10, 32, 32>>
    /\ \E i \in DOMAIN enc.out : enc.out[i] = A.item_separator
    /\ DropWhitespace(enc.out) # enc.out

Openers == {<<91>>, <<123>>}
Closers == {<<93>>, <<125>>}

\* the item separators a complete encoding of v holds: one less than its
\* entries for every container of v that has any
RECURSIVE Separators(_)
RECURSIVE SeparatorsIn(_, _)
Separators(v) ==
    IF IsContainer(Resolved(v))
    THEN (IF Len(Resolved(v).kids) > 1 THEN Len(Resolved(v).kids) - 1 ELSE 0)
         + SeparatorsIn(Resolved(v).kids, Resolved(v).t = "dict")
    ELSE 0
SeparatorsIn(kids, keyed) ==
    IF kids = <<>> THEN 0
    ELSE Separators(IF keyed THEN Head(kids).kids[2] ELSE Head(kids))
         + SeparatorsIn(Tail(kids), keyed)

\* the first fragment after position i that is not whitespace, 0 if none
RECURSIVE NextSolid(_, _)
NextSolid(frags, i) ==
    IF i >= Len(frags) THEN 0
    ELSE IF NotWhitespace(frags[i + 1]) THEN i + 1
    ELSE NextSolid(frags, i + 1)

\* C17: an item separator is never the first thing after an opening bracket
\* and never the last thing before a closing bracket: what precedes it is
\* the end of an entry (a scalar or the closing bracket of a nested
\* container) and what follows it is the start of one; the flag is clear
\* exactly while the current source has yielded nothing; a call that
\* returns has emitted max(n - 1, 0) separators for every container of n
\* entries
C17_SeparatorsBetweenEntries ==
    /\ \A i \in DOMAIN enc.out :
          enc.out[i] = A.item_separator =>
            /\ i > 1
            /\ enc.out[i - 1] \notin Openers \cup {A.item_separator, A.key_separator}
            /\ NotWhitespace(enc.out[i - 1])
            /\ NextSolid(enc.out, i) # 0 =>
                  enc.out[NextSolid(enc.out, i)]
                      \notin Closers \cup {A.item_separator, A.key_separator}
    /\ Looping => (enc.begun <=> enc.heap[enc.it].state = "running")
    /\ enc.pc = "done" =>
          Cardinality({i \in DOMAIN enc.out : enc.out[i] = A.item_separator})
              = Separators(o)

\* an empty container has closed between two entries of its parent, and the
\* parent's next entry got its separator
C17_Witness ==
    /\ enc.pc = "done"
    /\ \E i \in DOMAIN enc.out :
          /\ i > 2
          /\ enc.out[i] = A.item_separator
          /\ enc.out[i - 1] \in Closers
          /\ enc.out[i - 2] \in Openers

\* the number of frames open after fragment i
Depth(frags, i) == Len(Owed(SubSeq(frags, 1, i), <<>>))

\* C18: in pretty mode a closing bracket comes either right after the
\* opening bracket (an empty container, no whitespace between) or right
\* after one fragment of a newline and indent spaces for every frame left
\* on the stack; the first entry after an opening bracket and every entry
\* after an item separator starts with a newline fragment and a fragment of
\* indent spaces for every open frame
C18_PrettyLayout ==
    A.pretty =>
      \A i \in DOMAIN enc.out :
        /\ enc.out[i] \in Closers =>
              /\ i > 1
              /\ \/ enc.out[i - 1] \in Openers
                 \/ enc.out[i - 1] = <<10>> \o Spaces(A.indent * Depth(enc.out, i))
        /\ (enc.out[i] \in Openers \cup {A.item_separator} /\ i < Len(enc.out)) =>
              \/ enc.out[i] \in Openers /\ enc.out[i + 1] \in Closers
              \/ /\ enc.out[i + 1] = <<10>>
                 /\ i + 2 <= Len(enc.out) =>
                       enc.out[i + 2] = Spaces(A.indent * Depth(enc.out, i))

\* a pretty call that closed an empty and a non-empty container two deep
C18_Witness ==
    /\ A.pretty /\ A.indent = 2 /\ enc.pc = "done"
    /\ \E i \in DOMAIN enc.out :
          i > 1 /\ enc.out[i] \in Closers /\ enc.out[i - 1] \in Openers
    /\ \E i \in DOMAIN enc.out :
          i > 1 /\ enc.out[i] \in Closers /\ enc.out[i - 1] = <<10, 32, 32>>

\* --------------------------------------------- frames and pulls (C13, C16)

TagOf(w) ==
    CASE w.t = "dict" -> OBJTYPE_DICT
      [] w.t = "async_generator" -> OBJTYPE_ASYNC_GENERATOR
      [] OTHER -> OBJTYPE_SEQUENCE

\* the container frame k of the stack consumes, its entries in the order
\* its source yields them, and how many of them the source has yielded:
\* frame 1 is the root, frame k + 1 the container held by the entry frame k
\* yielded last
RECURSIVE FramesUpTo(_)
FramesUpTo(k) ==
    IF k = 0 THEN <<>>
    ELSE LET below == FramesUpTo(k - 1)
             up == below[k - 1]
             value ==
                 IF k = 1 THEN Resolved(o)
                 ELSE IF up.pulled \notin 1..Len(up.kids) THEN VNone
                 ELSE IF up.value.t = "dict" THEN Resolved(up.kids[up.pulled].kids[2])
                 ELSE Resolved(up.kids[up.pulled])
             kids == IF value.t = "dict" THEN SourceOrder(A, value, k = 1) ELSE value.kids
         IN Append(below,
                   [value |-> value, kids |-> kids,
                    pulled |-> Len(kids) - Len(enc.heap[enc.stack[k][2]].rest)])

FrameValue(k) == FramesUpTo(k)[k].value
FrameKids(k) == FramesUpTo(k)[k].kids
PulledCount(k) == FramesUpTo(k)[k].pulled

\* C16: whenever the loop is about to pull, the source and the variant tag
\* it uses are those of the top frame; the stack is as long as the
\* containers open in the output; frame 1 consumes the root and every
\* further frame the container its parent yielded last, under that
\* container's tag; and every frame's source stands just past the entries
\* it has yielded, a parent's just past the entry that holds its child
C16_FrameDiscipline ==
    Looping =>
      /\ <<enc.ittyp, enc.it>> = enc.stack[Len(enc.stack)]
      /\ Len(enc.stack) = Len(Owed(enc.out, <<>>))
      /\ \A j, k \in DOMAIN enc.stack : j # k => enc.stack[j][2] # enc.stack[k][2]
      /\ \A k \in DOMAIN enc.stack :
            /\ IsContainer(FrameValue(k))
            /\ enc.stack[k][1] = TagOf(FrameValue(k))
            /\ PulledCount(k) \in 0..Len(FrameKids(k))
            /\ enc.heap[enc.stack[k][2]].rest
                  = SubSeq(FrameKids(k), PulledCount(k) + 1, Len(FrameKids(k)))
            /\ k < Len(enc.stack) => PulledCount(k) >= 1

\* a child frame has been popped and its parent, itself nested, pulls again
C16_Witness ==
    /\ Looping /\ Len(enc.stack) = 2
    /\ \E i \in DOMAIN enc.heap : enc.heap[i].state = "finished"
    /\ enc.heap[enc.it].rest # <<>>
    /\ PulledCount(2) >= 1

\* the fragments of the entries the open frames have yielded so far: the
\* walk of every entry already passed, and the opening of the one that
\* holds the next frame
RECURSIVE OpenWalk(_)
OpenWalk(k) ==
    LET keyed == FrameValue(k).t = "dict"
        p == PulledCount(k)
        last == k = Len(enc.stack)
        passed == SubSeq(FrameKids(k), 1, IF last THEN p ELSE p - 1)
    IN <<Bracket(IF keyed THEN OBJTYPE_DICT ELSE OBJTYPE_SEQUENCE)>>
       \o WalkKids(A, passed, k, TRUE, keyed)
       \o (IF last THEN <<>>
           ELSE Lead(A, p = 1, k)
                \o (IF keyed
                    THEN <<KeyText(A, FrameKids(k)[p].kids[1]), A.key_separator>>
                    ELSE <<>>)
                \o OpenWalk(k + 1))

TakenFrom(i) == Len(enc.heap[i].rest) - Len(enc'.heap[i].rest)

\* C13 as stated: no resumption takes more than one element from any source
\* before it emits something of it
C13_NeverLooksAhead == enc.held <= 1

\* C13 amended: between resumptions the fragments emitted are exactly those of the
\* entries the open frames' sources have yielded, and one resumption takes
\* at most one entry, from the top frame's source alone, and emits
\* something of it unless the call fails on it
C13_FramesNeverLookAhead ==
    /\ [](Looping => enc.out = OpenWalk(1))
    /\ [][\A i \in DOMAIN enc.heap :
            /\ TakenFrom(i) \in {0, 1}
            /\ TakenFrom(i) = 1 =>
                  /\ i = enc.it
                  /\ enc'.pc # "failed" => Len(enc'.out) > Len(enc.out)]_vars

\* a nested frame has yielded an entry while its parent still has some
C13_Witness ==
    /\ Looping /\ Len(enc.stack) >= 2
    /\ enc.heap[enc.stack[1][2]].rest # <<>>
    /\ PulledCount(Len(enc.stack)) >= 1
    /\ enc.heap[enc.it].rest # <<>>

\* -------------------------------------------------- key collections (C19)

\* str(x) of every element, joined in order
RECURSIVE Joined(_)
Joined(kids) == IF kids = <<>> THEN <<>> ELSE PyStr(Head(kids)) \o Joined(Tail(kids))

\* a key the classifier makes a sequence or an async sequence that ends
IsKeyCollection(key) ==
    /\ Resolved(key).t \in {"list", "generator", "async_generator"}
    /\ Resolved(key).t = "async_generator" => Resolved(key).n = 0

NextKey == Head(enc.heap[enc.it].rest).kids[1]

\* the fragments one resumption adds
Added == SubSeq(enc'.out, Len(enc.out) + 1, Len(enc'.out))

LeadLen == Len(Lead(A, ~enc.begun, Len(enc.stack)))

\* C19: the resumption that handles an entry whose key is a sequence or an
\* async sequence emits, after the entry's separator and indentation, one
\* fragment for the key, the str() of all its elements joined in order,
\* escaped and quoted as a string, and then the key separator; no bracket
\* is emitted and no frame is pushed for the key
C19_KeyCollectionIsOneFragment ==
    [][(/\ Looping /\ enc.ittyp = OBJTYPE_DICT /\ enc.heap[enc.it].rest # <<>>
        /\ IsKeyCollection(NextKey)
        /\ enc'.pc # "abandoned")
       => /\ Len(Added) >= LeadLen + 2
          /\ Added[LeadLen + 1] = encode_string(A, Joined(Resolved(NextKey).kids))
          /\ Added[LeadLen + 2] = A.key_separator
          /\ \A i \in 1..(LeadLen + 2) : Added[i] \notin Openers \cup Closers
          /\ Len(enc'.heap) - Len(enc.heap) = Len(enc'.stack) - Len(enc.stack)
          /\ IF Len(Added) > LeadLen + 2 /\ Added[LeadLen + 3] \in Openers
             THEN Len(enc'.stack) = Len(enc.stack) + 1
             ELSE enc'.stack = enc.stack]_vars

\* the key of two elements pulled from an async generator has gone out as
\* "ab", followed by the key separator
C19_Witness ==
    \E i \in DOMAIN enc.out :
        /\ i < Len(enc.out)
        /\ enc.out[i] = <<34, 97, 98, 34>>
        /\ enc.out[i + 1] = A.key_separator
        /\ enc.held = 2

\* ---------------------------------------------------- the fallback (C20)

\* the classifier's last value matched no rule, the caller's fallback
\* returned a text for it and the call went on
ViaFallback == A.default = "fn" /\ enc.item.t = "object" /\ enc.err = ""

\* C20 as stated: the text the fallback returns is classified again, so it
\* is emitted escaped and quoted, as a string scalar
C20_FallbackReclassified == ViaFallback => Emitted(encode_string(A, enc.item.s))

\* C20 amended: the text the fallback returns is the fragment, as returned:
\* it is not escaped or quoted, and no bracket or frame comes of it
C20_FallbackVerbatim ==
    ViaFallback =>
        /\ Emitted(enc.item.s)
        /\ ~Emitted(encode_string(A, enc.item.s))
        /\ Len(enc.stack) = Len(Owed(enc.out, <<>>)) \/ enc.pc = "abandoned"

\* the fallback's text went out from inside a container
C20_Witness ==
    /\ ViaFallback /\ enc.pc = "done"
    /\ Len(enc.out) >= 3
    /\ Emitted(enc.item.s)

\* ------------------------------------------------------ ASCII mode (C15)

MaxText == 2

\* control characters, the quote, the backslash, printable ASCII and its
\* two ends, DEL, Latin-1, the last code point of the basic plane, the
\* first, one and the last of the supplementary planes
Chars == {8, 10, 31, 32, 34, 65, 92, 126, 127, 233, 65535, 65536, 128512, 1114111}

Texts == UNION {[1..n -> Chars] : n \in 0..MaxText}

\* a text at the root, as an element, as a key and a value, and deferred
\* inside an async generator
Placed(t) ==
    {VStr(t), VList(<<VStr(t)>>), VDict(<<VPair(VStr(t), VStr(t))>>),
     VAGen(<<VAw(VStr(t), 0)>>, 0)}

TextConfigs ==
    [pretty : {FALSE}, sort_keys : {FALSE}, ensure_ascii : BOOLEAN, allow_nan : {TRUE},
     indent : {1}, default : {"JSONEncoder.default"}]

InitText ==
    /\ o \in UNION {Placed(t) : t \in Texts}
    /\ kw \in TextConfigs
    /\ api = "dumps_gen"
    /\ enc = Fresh
    /\ other = Idle

SpecText == InitText /\ [][Next]_vars

RECURSIVE FocusText(_)
FocusText(v) ==
    IF v.t = "str" THEN v.s
    ELSE IF v.t = "dict" THEN v.kids[1].kids[1].s
    ELSE FocusText(v.kids[1])

Malformed == <<1114112>>

HexVal(d) ==
    IF d \in 48..57 THEN d - 48
    ELSE IF d \in 97..102 THEN d - 87
    ELSE IF d \in 65..70 THEN d - 55
    ELSE 1114112

\* the number four hexadecimal digits at t[i..i+3] write
Hex4(t, i) ==
    HexVal(t[i]) * 4096 + HexVal(t[i + 1]) * 256 + HexVal(t[i + 2]) * 16 + HexVal(t[i + 3])

IsU4(t, i) ==
    /\ Len(t) >= i + 5 /\ t[i] = 92 /\ t[i + 1] = 117
    /\ \A j \in (i + 2)..(i + 5) : HexVal(t[j]) < 16

\* what a JSON reader makes of the inside of a string: the code points
\* written, a surrogate pair read as the one code point it stands for;
\* Malformed for a bare quote, a bare backslash or a lone surrogate
RECURSIVE Unescape(_)
Unescape(t) ==
    IF t = <<>> THEN <<>>
    ELSE IF Head(t) = 34 THEN Malformed
    ELSE IF Head(t) # 92 THEN <<Head(t)>> \o Unescape(Tail(t))
    ELSE IF IsU4(t, 1)
    THEN (IF Hex4(t, 3) \in 55296..56319
          THEN (IF IsU4(t, 7) /\ Hex4(t, 9) \in 56320..57343
                THEN <<65536 + (Hex4(t, 3) - 55296) * 1024 + (Hex4(t, 9) - 56320)>>
                     \o Unescape(SubSeq(t, 13, Len(t)))
                ELSE Malformed)
          ELSE IF Hex4(t, 3) \in 56320..57343 THEN Malformed
          ELSE <<Hex4(t, 3)>> \o Unescape(SubSeq(t, 7, Len(t))))
    ELSE IF Len(t) < 2 THEN Malformed
    ELSE CASE t[2] = 34 -> <<34>> \o Unescape(SubSeq(t, 3, Len(t)))
           [] t[2] = 92 -> <<92>> \o Unescape(SubSeq(t, 3, Len(t)))
           [] t[2] = 98 -> <<8>> \o Unescape(SubSeq(t, 3, Len(t)))
           [] t[2] = 102 -> <<12>> \o Unescape(SubSeq(t, 3, Len(t)))
           [] t[2] = 110 -> <<10>> \o Unescape(SubSeq(t, 3, Len(t)))
           [] t[2] = 114 -> <<13>> \o Unescape(SubSeq(t, 3, Len(t)))
           [] t[2] = 116 -> <<9>> \o Unescape(SubSeq(t, 3, Len(t)))
           [] OTHER -> Malformed

Inner(frag) == SubSeq(frag, 2, Len(frag) - 1)

\* printable ASCII written as itself, anything else as an escape
RECURSIVE OnlyEscapesNeeded(_, _)
OnlyEscapesNeeded(text, inner) ==
    IF text = <<>> THEN inner = <<>>
    ELSE IF inner = <<>> THEN FALSE
    ELSE IF Head(text) \in 32..126 /\ Head(text) \notin {34, 92}
    THEN Head(inner) = Head(text) /\ OnlyEscapesNeeded(Tail(text), Tail(inner))
    ELSE /\ Head(inner) = 92
         /\ LET n == CASE Head(text) > 65535 -> 12
                        [] Head(text) \in {34, 92, 8, 12, 10, 13, 9} -> 2
                        [] OTHER -> 6
            IN Len(inner) >= n
               /\ Unescape(SubSeq(inner, 1, n)) = <<Head(text)>>
               /\ OnlyEscapesNeeded(Tail(text), SubSeq(inner, n + 1, Len(inner)))

\* C15: in ASCII mode every fragment holds only characters 0x20-0x7E; a
\* text is rendered between double quotes, each printable ASCII character
\* other than the quote and the backslash as itself and every other
\* character as an escape, a code point above U+FFFF as two \uXXXX escapes
\* of a high surrogate in D800-DBFF and a low surrogate in DC00-DFFF that
\* together stand for it; a JSON reader gets the text back
C15_AsciiOnly ==
    (A.encode_string = "py_encode_basestring_ascii" /\ enc.pc = "done") =>
      /\ \A i \in DOMAIN enc.out : \A j \in DOMAIN enc.out[i] : enc.out[i][j] \in 32..126
      /\ \E i \in DOMAIN enc.out : IsQuoted(enc.out[i])
      /\ \A i \in DOMAIN enc.out :
            enc.out[i] \notin Openers \cup Closers \cup {A.key_separator} =>
              /\ IsQuoted(enc.out[i])
              /\ Unescape(Inner(enc.out[i])) = FocusText(o)
              /\ OnlyEscapesNeeded(FocusText(o), Inner(enc.out[i]))

\* U+1F600 beside a control character went out as a surrogate pair and a
\* named escape
C15_Witness ==
    /\ A.encode_string = "py_encode_basestring_ascii" /\ enc.pc = "done"
    /\ FocusText(o) = <<128512, 10>>
    /\ \E i \in DOMAIN enc.out : Len(enc.out[i]) = 16

\* ------------------------------------------------ two calls at once (C14)

PairInputs ==
    {Plain, VList(<<Plain, VList(<<>>), Plain>>), VAGen(Run(Plain, MaxLen), 0),
     VAGen(<<Plain>>, 1), VAw(VList(<<TextA>>), 0),
     VDict(<<VPair(TextB, VList(<<Plain>>)), VPair(TextA, VDict(<<>>))>>),
     VDict(<<VPair(VAGen(<<TextA, TextB>>, 0), VAw(Plain, 0))>>),
     VList(<<VList(<<VObj(<<120>>)>>)>>)}

PairConfigs ==
    [pretty : BOOLEAN, sort_keys : {TRUE}, ensure_ascii : {TRUE}, allow_nan : {TRUE},
     indent : {1}, default : {"JSONEncoder.default"}]

\* one JSONEncoder, two iterencode() calls over inputs that share nothing
InitPair ==
    /\ o \in PairInputs
    /\ kw \in PairConfigs
    /\ api = "dumps_gen"
    /\ enc = Fresh
    /\ other \in [o : PairInputs, enc : {Fresh}]

Active(e) == e.pc \in {"start", "loop"}

FirstResumes ==
    /\ Active(enc)
    /\ enc' = Resume(A, enc, other.enc, o)
    /\ UNCHANGED <<o, kw, api, other>>

SecondResumes ==
    /\ Active(other.enc)
    /\ other' = [other EXCEPT !.enc = Resume(A, other.enc, enc, other.o)]
    /\ UNCHANGED <<o, kw, api, enc>>

NextPair == FirstResumes \/ SecondResumes

SpecPair == InitPair /\ [][NextPair]_vars

\* what the call has emitted is the start of what it emits alone, and once
\* it has returned or raised, all of it, with the same outcome
AsAlone(e, vobj) ==
    /\ IsPrefix(e.out, encode(A, vobj).out)
    /\ ~Active(e) =>
          /\ e.out = encode(A, vobj).out
          /\ e.pc = encode(A, vobj).pc
          /\ e.err = encode(A, vobj).err

====
